---- MODULE Spec2Model ----
(***************************************************************************)
(* A model of taiga-discord-standup.py: one run of main(), which fetches    *)
(* sprint, story and task records from Taiga, groups them, builds two       *)
(* Discord embeds and posts them to a webhook.                              *)
(*                                                                          *)
(* Modelling conventions                                                    *)
(*  - A JSON list entry is either None or a record                          *)
(*      [id, status, assigned, is_closed, user_story, us_info, subject]     *)
(*    where status / assigned / us_info stand for the values of the keys    *)
(*    'status_extra_info' / 'assigned_to_extra_info' /                      *)
(*    'user_story_extra_info'.  Such a value is [kind, name] with kind one  *)
(*    of                                                                    *)
(*      "absent"     the key is missing                                     *)
(*      "null"       the value is None                                      *)
(*      "falsy"      a falsy non-dict value ("", 0, [])                     *)
(*      "truthy"     a truthy non-dict value ("Done", 7, ["x"])             *)
(*      "emptydict"  {} (a dict, but falsy)                                 *)
(*      "dict_nokey" a non-empty dict without 'name' / 'username' / 'ref'   *)
(*      "dict"       a dict whose 'name' / 'username' / 'ref' is `name`     *)
(*  - 'ref' is modelled by the record's id.                                 *)
(*  - 'subject' is [kind, len]: "absent" (the key is missing), "str" (a     *)
(*    string of len characters) or "null" (None, which cannot be sliced);   *)
(*    a rendered line keeps the number of characters of the subject shown.  *)
(*  - A username is modelled by a positive integer, its rank in Python's    *)
(*    string order (sorted(stories_by_user.items()) sorts by it); the       *)
(*    sentinels 'unassigned' and '?' are the integers below.                *)
(*  - A date string is a sequence of two digits (fixed width); the sort of  *)
(*    get_current_sprint compares the strings, the range test the parsed    *)
(*    dates.                                                                *)
(*  - An embed keeps the data of its description and its list of fields; a  *)
(*    field's text is kept as a sequence of lines, not joined.              *)
(***************************************************************************)
EXTENDS Integers, Sequences, FiniteSets, TLC

(***************************************************************************)
(* Bounds of the model                                                      *)
(***************************************************************************)
MaxSprints == 2
MaxDay == 2
MaxRecs == 4
MaxBoard == 5
MaxTotal == 40
MaxUsers == 19
MaxRun == 1

(***************************************************************************)
(* Program constants                                                        *)
(***************************************************************************)
\* create_task_board_section: tasks[:3], len(tasks) > 3, len(tasks) - 3
VisibleCap == 3
\* all_stories_by_status['Blocked'][:5]
BlockedCap == 5
\* if team_count % 3 == 0
RowWidth == 3
\* the sentinel '?' of a rendered assignee
QMark == 0
\* the reserved key 'unassigned' of stories_by_user
Unassigned == 0
\* task.get('subject', 'No title')[:25]
SubjectCap == 25
\* story.get('subject', 'No title')[:50] of the blocked callout
BlockedSubjectCap == 50
\* len('No title')
NoTitleLen == 8
\* the default '' of user_story_extra_info.get('ref', '')
EmptyRef == 0

None == [none |-> TRUE]

SPRINT_COLUMNS ==
    << [status |-> "Not Started", emoji |-> "pause"],
       [status |-> "In Progress", emoji |-> "cycle"],
       [status |-> "Done", emoji |-> "check"] >>

KANBAN_COLUMNS ==
    << [status |-> "Not Started", emoji |-> "pause"],
       [status |-> "In Progress", emoji |-> "cycle"],
       [status |-> "Ready for Test", emoji |-> "tube"],
       [status |-> "Ready for Review", emoji |-> "eyes"],
       [status |-> "Done", emoji |-> "check"] >>

(***************************************************************************)
(* Python values                                                            *)
(***************************************************************************)
Min(a, b) == IF a < b THEN a ELSE b

\* bool(v)
Truthy(v) == v.kind \in {"truthy", "dict", "dict_nokey"}

\* isinstance(v, dict)
IsDict(v) == v.kind \in {"dict", "dict_nokey", "emptydict"}

\* v.get(key, default) of a dict v
DictGet(v, default) == IF v.kind = "dict" THEN v.name ELSE default

\* d.get(k, default) of a mapping d
MapGet(d, k, default) == IF k \in DOMAIN d THEN d[k] ELSE default

\* xs[:n]
Take(xs, n) == SubSeq(xs, 1, Min(n, Len(xs)))

\* len([x for x in xs if x is not None])
RECURSIVE CountNonNull(_)
CountNonNull(xs) ==
    IF xs = <<>> THEN 0
    ELSE (IF Head(xs) = None THEN 0 ELSE 1) + CountNonNull(Tail(xs))

\* sum(1 for t in xs if t and t.get('is_closed', False))
RECURSIVE CountClosed(_)
CountClosed(xs) ==
    IF xs = <<>> THEN 0
    ELSE (IF Head(xs) # None /\ Head(xs).is_closed THEN 1 ELSE 0)
         + CountClosed(Tail(xs))

(***************************************************************************)
(* get_current_sprint                                                       *)
(***************************************************************************)
\* a date string "dd"
DateStr(d) == << d \div 10, d % 10 >>

\* datetime.fromisoformat(s).date(), as a day number
ParseDate(s) == s[1] * 10 + s[2]

\* a < b of two Python strings (lexicographic; '' is below every string)
RECURSIVE StrLess(_, _)
StrLess(a, b) ==
    IF b = <<>> THEN FALSE
    ELSE IF a = <<>> THEN TRUE
    ELSE IF Head(a) # Head(b) THEN Head(a) < Head(b)
    ELSE StrLess(Tail(a), Tail(b))

\* sprint.get('estimated_start') and sprint.get('estimated_finish')
HasDates(sprint) == sprint.start.kind = "str" /\ sprint.finish.kind = "str"

\* start <= now <= end
InRange(sprint, today) ==
    /\ HasDates(sprint)
    /\ ParseDate(sprint.start.s) <= today
    /\ today <= ParseDate(sprint.finish.s)

\* x.get('estimated_start', ''): the sort key (None when the value is null)
SortKey(sprint) == IF sprint.start.kind = "str" THEN sprint.start.s ELSE <<>>

KeyIsNone(sprint) == sprint.start.kind = "null"

\* one insertion of a stable descending sort: x goes behind every element
\* whose key is not below its own
RECURSIVE InsertDesc(_, _)
InsertDesc(x, sorted) ==
    IF sorted = <<>> THEN << x >>
    ELSE IF StrLess(SortKey(Head(sorted)), SortKey(x))
         THEN << x >> \o sorted
         ELSE << Head(sorted) >> \o InsertDesc(x, Tail(sorted))

\* sorted(sprints, key=..., reverse=True): stable, equal keys keep list order
RECURSIVE SortedDesc(_, _)
SortedDesc(xs, acc) ==
    IF xs = <<>> THEN acc ELSE SortedDesc(Tail(xs), InsertDesc(Head(xs), acc))

\* the for loop: the first sprint in list order whose range holds today
RECURSIVE FirstInRange(_, _)
FirstInRange(xs, today) ==
    IF xs = <<>> THEN None
    ELSE IF InRange(Head(xs), today) THEN Head(xs)
    ELSE FirstInRange(Tail(xs), today)

\* the sort compares keys with <, which raises TypeError on None as soon as
\* two elements are compared
SortRaises(xs) == Len(xs) >= 2 /\ \E i \in 1..Len(xs) : KeyIsNone(xs[i])

\* [ok, val]: ok = FALSE when the call raises (TypeError)
get_current_sprint(xs, today) ==
    IF FirstInRange(xs, today) # None
    THEN [ok |-> TRUE, val |-> FirstInRange(xs, today)]
    ELSE IF xs = <<>> THEN [ok |-> TRUE, val |-> None]
    ELSE IF SortRaises(xs) THEN [ok |-> FALSE, val |-> None]
    ELSE [ok |-> TRUE, val |-> Head(SortedDesc(xs, <<>>))]

(***************************************************************************)
(* organize_tasks_by_status, organize_stories_by_status                     *)
(***************************************************************************)
\* the status the organize_* functions give a record
StatusName(rec) ==
    IF Truthy(rec.status) /\ IsDict(rec.status)
    THEN DictGet(rec.status, "Unknown")
    ELSE "Unknown"

\* d[status] = [rec] in place of the append: a bucket keeps its last record
AppendToOverwriting(d, k, rec) ==
    [ s \in DOMAIN d \cup {k} |-> IF s = k THEN << rec >> ELSE d[s] ]

\* if status not in d: d[status] = []; d[status].append(rec)
AppendTo(d, k, rec) ==
    [ s \in DOMAIN d \cup {k} |->
        IF s = k THEN MapGet(d, k, <<>>) \o << rec >> ELSE d[s] ]

RECURSIVE OrganizeTasksLoop(_, _)
OrganizeTasksLoop(tasks, acc) ==
    IF tasks = <<>> THEN acc
    ELSE IF Head(tasks) = None THEN OrganizeTasksLoop(Tail(tasks), acc)
    ELSE OrganizeTasksLoop(Tail(tasks),
                           AppendTo(acc, StatusName(Head(tasks)), Head(tasks)))

organize_tasks_by_status(tasks) == OrganizeTasksLoop(tasks, <<>>)

RECURSIVE OrganizeStoriesLoop(_, _)
OrganizeStoriesLoop(stories, acc) ==
    IF stories = <<>> THEN acc
    ELSE IF Head(stories) = None THEN OrganizeStoriesLoop(Tail(stories), acc)
    ELSE OrganizeStoriesLoop(Tail(stories),
                             AppendTo(acc, StatusName(Head(stories)), Head(stories)))

organize_stories_by_status(user_stories) == OrganizeStoriesLoop(user_stories, <<>>)

\* main: tasks_by_story, keyed by task.get('user_story') when it is truthy
RECURSIVE TasksByStoryLoop(_, _)
TasksByStoryLoop(tasks, acc) ==
    IF tasks = <<>> THEN acc
    ELSE IF Head(tasks) = None \/ Head(tasks).user_story = 0
         THEN TasksByStoryLoop(Tail(tasks), acc)
    ELSE TasksByStoryLoop(Tail(tasks),
                          AppendTo(acc, Head(tasks).user_story, Head(tasks)))

(***************************************************************************)
(* create_task_board_section, create_story_board_section                    *)
(***************************************************************************)
\* the assignee of a board line: the username, or '?'
RenderedAssignee(rec) ==
    IF Truthy(rec.assigned) /\ IsDict(rec.assigned)
    THEN DictGet(rec.assigned, QMark)
    ELSE QMark

\* rec.get('subject', 'No title')[:cap]: slicing None raises TypeError
SubjectRaises(rec) == rec.subject.kind = "null"

\* the number of characters of the subject that a line shows
ShownSubject(rec, cap) ==
    IF rec.subject.kind = "str" THEN Min(rec.subject.len, cap)
    ELSE Min(NoTitleLen, cap)

\* if task.get('user_story_extra_info'):
\*     us_ref = f" (US#{task['user_story_extra_info'].get('ref', '')})"
\* .get on a truthy value that is no dict raises AttributeError
UsRefRaises(task) == task.us_info.kind = "truthy"

\* us_ref: nothing, or the reference of the user story
UsRef(task) ==
    IF Truthy(task.us_info) THEN << DictGet(task.us_info, EmptyRef) >> ELSE <<>>

\* the exception one task of a column raises, "" when it raises none: the
\* subject is sliced (line 235) before us_ref is built (line 247)
TaskLineError(task) ==
    IF SubjectRaises(task) THEN "TypeError"
    ELSE IF UsRefRaises(task) THEN "AttributeError"
    ELSE ""

TaskLine(task) ==
    [ t |-> "item", ref |-> task.id, who |-> RenderedAssignee(task),
      us |-> UsRef(task), subject |-> ShownSubject(task, SubjectCap) ]

\* the first exception of the loop over tasks[:3]
RECURSIVE TaskLinesError(_)
TaskLinesError(shown) ==
    IF shown = <<>> THEN ""
    ELSE IF Head(shown) = None THEN TaskLinesError(Tail(shown))
    ELSE IF TaskLineError(Head(shown)) # "" THEN TaskLineError(Head(shown))
    ELSE TaskLinesError(Tail(shown))

\* for task in tasks[:3]: if task is None: continue; column_lines.append(...)
RECURSIVE TaskLines(_)
TaskLines(shown) ==
    IF shown = <<>> THEN <<>>
    ELSE IF Head(shown) = None THEN TaskLines(Tail(shown))
    ELSE << TaskLine(Head(shown)) >> \o TaskLines(Tail(shown))

\* the overflow test written >= 3: a full column gets a "+0 more" line
MoreLineAtCap(items) ==
    IF Len(items) >= VisibleCap
    THEN << [t |-> "more", n |-> Len(items) - VisibleCap] >>
    ELSE <<>>

\* if len(tasks) > 3: column_lines.append("+{len(tasks) - 3} more")
MoreLine(items) ==
    IF Len(items) > VisibleCap
    THEN << [t |-> "more", n |-> Len(items) - VisibleCap] >>
    ELSE <<>>

\* if not column_lines: column_lines.append(placeholder)
OrPlaceholder(column_lines) ==
    IF column_lines = <<>> THEN << [t |-> "empty"] >> ELSE column_lines

\* one iteration of the loop over columns
TaskColumn(col, by_status) ==
    LET tasks == MapGet(by_status, col.status, <<>>)
    IN  [ kind |-> "column", emoji |-> col.emoji, status |-> col.status,
          count |-> Len(tasks),
          lines |-> OrPlaceholder(TaskLines(Take(tasks, VisibleCap)) \o MoreLine(tasks)),
          inline |-> TRUE ]

\* the first exception create_task_board_section raises, column by column;
\* "" when it returns
RECURSIVE TaskBoardError(_, _)
TaskBoardError(columns, by_status) ==
    IF columns = <<>> THEN ""
    ELSE LET shown == Take(MapGet(by_status, Head(columns).status, <<>>), VisibleCap)
         IN  IF TaskLinesError(shown) # "" THEN TaskLinesError(shown)
             ELSE TaskBoardError(Tail(columns), by_status)

\* the variant that renders only the columns present in the grouping
create_task_board_section_present(columns, by_status) ==
    SelectSeq([ i \in 1..Len(columns) |-> TaskColumn(columns[i], by_status) ],
              LAMBDA f : f.count > 0)

create_task_board_section(columns, by_status) ==
    [ i \in 1..Len(columns) |-> TaskColumn(columns[i], by_status) ]

\* the badge completed/total of a story's tasks; total = 0 when there is none
StoryLine(story, by_story) ==
    LET story_tasks == MapGet(by_story, story.id, <<>>)
    IN  [ t |-> "item", ref |-> story.id, who |-> RenderedAssignee(story),
          completed |-> CountClosed(story_tasks), total_t |-> Len(story_tasks),
          subject |-> ShownSubject(story, SubjectCap) ]

RECURSIVE StoryLines(_, _)
StoryLines(shown, by_story) ==
    IF shown = <<>> THEN <<>>
    ELSE IF Head(shown) = None THEN StoryLines(Tail(shown), by_story)
    ELSE << StoryLine(Head(shown), by_story) >> \o StoryLines(Tail(shown), by_story)

StoryColumn(col, by_status, by_story) ==
    LET stories == MapGet(by_status, col.status, <<>>)
    IN  [ kind |-> "column", emoji |-> col.emoji, status |-> col.status,
          count |-> Len(stories),
          lines |-> OrPlaceholder(StoryLines(Take(stories, VisibleCap), by_story)
                                  \o MoreLine(stories)),
          inline |-> TRUE ]

\* whether create_story_board_section raises TypeError: a story it shows has
\* a subject that cannot be sliced (line 18)
StoryBoardRaises(columns, by_status) ==
    \E i \in 1..Len(columns) :
        LET shown == Take(MapGet(by_status, columns[i].status, <<>>), VisibleCap)
        IN  \E j \in 1..Len(shown) : shown[j] # None /\ SubjectRaises(shown[j])

create_story_board_section(columns, by_status, by_story) ==
    [ i \in 1..Len(columns) |-> StoryColumn(columns[i], by_status, by_story) ]

(***************************************************************************)
(* Completion percentage                                                    *)
(***************************************************************************)
\* n/d rounded to an integer, a tie going to the even neighbour
RoundHalfEven(n, d) ==
    LET q == n \div d
        twice == 2 * (n % d)
    IN  IF twice > d THEN q + 1
        ELSE IF twice < d THEN q
        ELSE IF q % 2 = 0 THEN q ELSE q + 1

\* the greatest common divisor, which puts done/total in lowest terms
RECURSIVE Gcd(_, _)
Gcd(a, b) == IF b = 0 THEN a ELSE Gcd(b, a % b)

\* the fractions done/total, in lowest terms, for which 100*done/total is a
\* tie k + 1/2 and the double done / total * 100 is not: the division is
\* rounded to 53 bits, and so is the product, which ends just below or just
\* above the tie.  A tie has a denominator 8, 40 or 200 in lowest terms; for
\* every other such fraction the double is the tie itself.
DoubleBelowTie == { << 23, 40 >>, << 29, 200 >>, << 57, 200 >>, << 113, 200 >> }
DoubleAboveTie == { << 11, 40 >>, << 7, 200 >>, << 109, 200 >>, << 111, 200 >> }

\* f"{(done / total * 100) if total > 0 else 0:.0f}".  ':.0f' rounds the
\* exact value of the double half to even.  Off a tie the double lies on the
\* same side of the tie as the fraction (their distance, at least
\* 1/(2*total), exceeds the error of the double); on a tie the double decides.
FormatCompletion(done, total) ==
    IF total > 0
    THEN LET q == (done * 100) \div total
             twice == 2 * ((done * 100) % total)
             g == Gcd(done, total)
             lowest == << done \div g, total \div g >>
         IN  IF twice # total THEN RoundHalfEven(done * 100, total)
             ELSE IF lowest \in DoubleBelowTie THEN q
             ELSE IF lowest \in DoubleAboveTie THEN q + 1
             ELSE RoundHalfEven(done * 100, total)
    ELSE 0

(***************************************************************************)
(* create_sprint_standup_embed                                              *)
(***************************************************************************)
\* the progress line written without its "if sprint" guard
create_sprint_standup_embed_unguarded(sprint, s_tasks, by_status) ==
    LET sprint_total == CountNonNull(s_tasks)
        sprint_done == Len(MapGet(by_status, "Done", <<>>))
    IN  [ title |-> "Daily Standup",
          progress |-> << [ done |-> sprint_done, total |-> sprint_total,
                            pct |-> FormatCompletion(sprint_done, sprint_total) ] >>,
          fields |-> IF sprint # None /\ sprint_total > 0
                     THEN << [ kind |-> "header", count |-> sprint_total,
                               inline |-> FALSE ] >>
                          \o create_task_board_section(SPRINT_COLUMNS, by_status)
                     ELSE <<>> ]

\* the exception create_sprint_standup_embed raises, "" when it returns: the
\* board is built only when there is a sprint with tasks
SprintEmbedError(sprint, s_tasks, by_status) ==
    IF sprint # None /\ CountNonNull(s_tasks) > 0
    THEN TaskBoardError(SPRINT_COLUMNS, by_status)
    ELSE ""

create_sprint_standup_embed(sprint, s_tasks, by_status) ==
    LET sprint_total == CountNonNull(s_tasks)
        sprint_done == Len(MapGet(by_status, "Done", <<>>))
        progress ==
            IF sprint # None
            THEN << [ done |-> sprint_done, total |-> sprint_total,
                      pct |-> FormatCompletion(sprint_done, sprint_total) ] >>
            ELSE <<>>
        fields ==
            IF sprint # None /\ sprint_total > 0
            THEN << [ kind |-> "header", count |-> sprint_total, inline |-> FALSE ] >>
                 \o create_task_board_section(SPRINT_COLUMNS, by_status)
            ELSE <<>>
    IN  [ title |-> "Daily Standup", progress |-> progress, fields |-> fields ]

(***************************************************************************)
(* create_kanban_and_metrics_embed                                          *)
(***************************************************************************)
\* health: green if blocked_count == 0, yellow if blocked_count < 3, else red
Health(blocked_count) ==
    IF blocked_count = 0 THEN "green"
    ELSE IF blocked_count < 3 THEN "yellow" ELSE "red"

\* assigned_info = story.get('assigned_to_extra_info', {})
\* assigned_info.get('username', '?') if assigned_info else '?'
\* .get on a truthy value that is no dict raises AttributeError
BlockerRaises(story) == story.assigned.kind = "truthy"

BlockerAssignee(story) ==
    IF Truthy(story.assigned) THEN DictGet(story.assigned, QMark) ELSE QMark

\* the exception one story of the blocked callout raises, "" when none: the
\* subject is sliced (line 379) before the assignee is read (line 381)
BlockerError(story) ==
    IF SubjectRaises(story) THEN "TypeError"
    ELSE IF BlockerRaises(story) THEN "AttributeError"
    ELSE ""

\* the first exception of the loop over all_stories_by_status['Blocked'][:5]
RECURSIVE BlockersError(_)
BlockersError(shown) ==
    IF shown = <<>> THEN ""
    ELSE IF Head(shown) = None THEN BlockersError(Tail(shown))
    ELSE IF BlockerError(Head(shown)) # "" THEN BlockerError(Head(shown))
    ELSE BlockersError(Tail(shown))

RECURSIVE BlockerLines(_)
BlockerLines(shown) ==
    IF shown = <<>> THEN <<>>
    ELSE IF Head(shown) = None THEN BlockerLines(Tail(shown))
    ELSE << [ t |-> "blocker", ref |-> Head(shown).id,
              who |-> BlockerAssignee(Head(shown)),
              subject |-> ShownSubject(Head(shown), BlockedSubjectCap) ] >>
         \o BlockerLines(Tail(shown))

\* if 'Blocked' in all_stories_by_status and all_stories_by_status['Blocked']
BlockedFields(by_status) ==
    LET blocked == MapGet(by_status, "Blocked", <<>>)
    IN  IF blocked # <<>>
        THEN << [ kind |-> "blocked",
                  lines |-> BlockerLines(Take(blocked, BlockedCap)),
                  inline |-> FALSE ] >>
        ELSE <<>>

\* status_info = story.get('status_extra_info', {})
\* status = status_info.get('name', '') if status_info else ''
WorkloadStatusRaises(story) == story.status.kind = "truthy"

WorkloadStatus(story) ==
    IF Truthy(story.status) THEN DictGet(story.status, "") ELSE ""

\* the key a story is filed under in stories_by_user
WorkloadUser(story) ==
    IF Truthy(story.assigned) /\ IsDict(story.assigned)
    THEN DictGet(story.assigned, Unassigned)
    ELSE Unassigned

\* if status in ['Done', 'Archived']: continue
IsTerminal(status) == status \in {"Done", "Archived"}

RECURSIVE StoriesByUserLoop(_, _)
StoriesByUserLoop(stories, acc) ==
    IF stories = <<>> THEN acc
    ELSE IF Head(stories) = None THEN StoriesByUserLoop(Tail(stories), acc)
    ELSE IF IsTerminal(WorkloadStatus(Head(stories)))
         THEN StoriesByUserLoop(Tail(stories), acc)
    ELSE StoriesByUserLoop(Tail(stories),
                           AppendTo(acc, WorkloadUser(Head(stories)), Head(stories)))

\* the mapping stories_by_user of the TEAM WORKLOAD section
stories_by_user(stories) == StoriesByUserLoop(stories, <<>>)

\* the exception create_kanban_and_metrics_embed raises, "" when it returns:
\* the blocked callout comes first, then the workload loop (line 398)
KanbanError(stories, by_status) ==
    LET blocked == Take(MapGet(by_status, "Blocked", <<>>), BlockedCap)
    IN  IF BlockersError(blocked) # "" THEN BlockersError(blocked)
        ELSE IF \E i \in 1..Len(stories) :
                   stories[i] # None /\ WorkloadStatusRaises(stories[i])
             THEN "AttributeError"
        ELSE ""

\* whether building the second embed raises
KanbanRaises(stories, by_status) == KanbanError(stories, by_status) # ""

\* the keys of a mapping in ascending order: sorted(stories_by_user.items())
RECURSIVE SortedKeys(_)
SortedKeys(S) ==
    IF S = {} THEN <<>>
    ELSE LET m == CHOOSE x \in S : \A y \in S : x <= y
         IN  << m >> \o SortedKeys(S \ {m})

\* workload glyph of a team member
Workload(count) ==
    IF count <= 2 THEN "green" ELSE IF count <= 4 THEN "yellow" ELSE "red"

\* status_info.get('name', 'Unknown') if status_info else 'Unknown'
BreakdownStatus(story) ==
    IF Truthy(story.status) THEN DictGet(story.status, "Unknown") ELSE "Unknown"

\* the glyph of the first Kanban column named status, "" when there is none
ColumnEmoji(status) ==
    IF \E i \in 1..Len(KANBAN_COLUMNS) : KANBAN_COLUMNS[i].status = status
    THEN KANBAN_COLUMNS[CHOOSE i \in 1..Len(KANBAN_COLUMNS) :
                           /\ KANBAN_COLUMNS[i].status = status
                           /\ \A j \in 1..(i - 1) : KANBAN_COLUMNS[j].status # status].emoji
    ELSE ""

\* status_counts[col_emoji] = status_counts.get(col_emoji, 0) + 1, the dict
\* kept in insertion order
Bump(counts, emoji) ==
    IF \E i \in 1..Len(counts) : counts[i].emoji = emoji
    THEN [ i \in 1..Len(counts) |->
             IF counts[i].emoji = emoji
             THEN [emoji |-> emoji, cnt |-> counts[i].cnt + 1]
             ELSE counts[i] ]
    ELSE counts \o << [emoji |-> emoji, cnt |-> 1] >>

RECURSIVE Breakdown(_, _)
Breakdown(stories, counts) ==
    IF stories = <<>> THEN counts
    ELSE LET emoji == ColumnEmoji(BreakdownStatus(Head(stories)))
         IN  Breakdown(Tail(stories),
                       IF emoji = "" THEN counts ELSE Bump(counts, emoji))

Spacer == [ kind |-> "spacer", inline |-> FALSE ]

\* a team loop that never adds the spacer after the third member of a row
RECURSIVE TeamFieldsUnspaced(_, _, _)
TeamFieldsUnspaced(users, by_user, team_count) ==
    IF users = <<>> THEN <<>>
    ELSE IF Head(users) = Unassigned
         THEN TeamFieldsUnspaced(Tail(users), by_user, team_count)
    ELSE << [ kind |-> "member", user |-> Head(users),
              workload |-> Workload(Len(by_user[Head(users)])),
              count |-> Len(by_user[Head(users)]),
              breakdown |-> Breakdown(by_user[Head(users)], <<>>),
              inline |-> TRUE ] >>
         \o TeamFieldsUnspaced(Tail(users), by_user, team_count + 1)

\* the loop over sorted(stories_by_user.items()), team_count members done
RECURSIVE TeamFields(_, _, _)
TeamFields(users, by_user, team_count) ==
    IF users = <<>> THEN <<>>
    ELSE IF Head(users) = Unassigned
         THEN TeamFields(Tail(users), by_user, team_count)
    ELSE LET stories == by_user[Head(users)]
             member == [ kind |-> "member", user |-> Head(users),
                         workload |-> Workload(Len(stories)),
                         count |-> Len(stories),
                         breakdown |-> Breakdown(stories, <<>>),
                         inline |-> TRUE ]
         IN  << member >>
             \o (IF (team_count + 1) % RowWidth = 0 THEN << Spacer >> ELSE <<>>)
             \o TeamFields(Tail(users), by_user, team_count + 1)

\* if 'unassigned' in stories_by_user
UnassignedFields(by_user) ==
    IF Unassigned \in DOMAIN by_user
    THEN << [ kind |-> "unassigned", count |-> Len(by_user[Unassigned]),
              inline |-> TRUE ] >>
    ELSE <<>>

Metric(label, done, total) ==
    [ kind |-> "metric", label |-> label, done |-> done, total |-> total,
      pct |-> FormatCompletion(done, total), inline |-> TRUE ]

\* metric_fields
MetricFields(sprint, s_tasks, kanban_done, kanban_total, tasks) ==
    LET sprint_total == IF s_tasks # <<>> THEN CountNonNull(s_tasks) ELSE 0
        sprint_done == IF s_tasks # <<>> THEN CountClosed(s_tasks) ELSE 0
    IN  (IF sprint # None /\ sprint_total > 0
         THEN << Metric("Sprint Progress", sprint_done, sprint_total) >>
         ELSE <<>>)
        \o << Metric("Story Progress", kanban_done, kanban_total),
              Metric("Task Completion", CountClosed(tasks), CountNonNull(tasks)) >>

\* the embed built when nothing raises (see KanbanRaises)
create_kanban_and_metrics_embed(stories, tasks, by_status, by_story, sprint, s_tasks) ==
    LET kanban_total == CountNonNull(stories)
        kanban_done == Len(MapGet(by_status, "Done", <<>>))
        blocked_count == Len(MapGet(by_status, "Blocked", <<>>))
        by_user == stories_by_user(stories)
    IN  [ title |-> "Team Metrics & Workload",
          progress |-> << [ done |-> kanban_done, total |-> kanban_total,
                            pct |-> FormatCompletion(kanban_done, kanban_total) ] >>,
          health |-> Health(blocked_count),
          blocked_count |-> blocked_count,
          fields |-> BlockedFields(by_status)
                     \o TeamFields(SortedKeys(DOMAIN by_user), by_user, 0)
                     \o UnassignedFields(by_user)
                     \o << Spacer >>
                     \o MetricFields(sprint, s_tasks, kanban_done, kanban_total, tasks) ]

(***************************************************************************)
(* Inputs: the records the source API may return                            *)
(***************************************************************************)
SDict(n) == [kind |-> "dict", name |-> n]
SKind(k) == [kind |-> k, name |-> ""]
ADict(u) == [kind |-> "dict", name |-> u]
AKind(k) == [kind |-> k, name |-> 0]

UDict(ref) == [kind |-> "dict", name |-> ref]
UKind(k) == [kind |-> k, name |-> 0]
Subject(n) == [kind |-> "str", len |-> n]
NoSubject(k) == [kind |-> k, len |-> 0]

\* a record without 'user_story_extra_info', its subject a short string
Rec(status, assigned, closed, us) ==
    [ id |-> 0, status |-> status, assigned |-> assigned,
      is_closed |-> closed, user_story |-> us,
      us_info |-> UKind("absent"), subject |-> Subject(12) ]

\* the same record with another 'user_story_extra_info' and 'subject'
Titled(rec, us_info, subject) ==
    [ rec EXCEPT !.us_info = us_info, !.subject = subject ]

\* every list of at most n entries drawn from X
Lists(X, n) == UNION { [1..k -> X] : k \in 0..n }

\* the API gives every record its own id: here, its place in the list
WithIds(xs) ==
    [ i \in 1..Len(xs) |-> IF xs[i] = None THEN None ELSE [xs[i] EXCEPT !.id = i] ]

SprintRec(start, finish) == [ id |-> 0, start |-> start, finish |-> finish ]
DAbsent == [kind |-> "absent", s |-> <<>>]
DNull == [kind |-> "null", s |-> <<>>]
DStr(d) == [kind |-> "str", s |-> DateStr(d)]

\* sprints of get_current_sprint's check: either date present, absent or
\* (the start) null
SelectSprintShapes ==
    { SprintRec(a, b) :
        a \in {DAbsent, DNull} \cup { DStr(d) : d \in 1..MaxDay },
        b \in {DAbsent} \cup { DStr(d) : d \in 1..MaxDay } }

\* a run of main(): small inputs of every kind of record
RunSprintShapes == { SprintRec(DStr(1), DStr(MaxDay)), SprintRec(DAbsent, DAbsent) }

RunTaskShapes ==
    { None,
      Rec(SDict("Done"), ADict(1), TRUE, 1) }

\* the tasks of the sprint, which the first embed renders: a task of a user
\* story, one whose 'user_story_extra_info' is no dict and one whose subject
\* is null
RunSprintTaskShapes ==
    { None,
      Titled(Rec(SDict("Done"), ADict(1), TRUE, 1), UDict(1), Subject(30)),
      Titled(Rec(SDict("Done"), ADict(1), TRUE, 1), UKind("truthy"), Subject(12)),
      Titled(Rec(SDict("In Progress"), ADict(1), FALSE, 0), UKind("absent"),
             NoSubject("null")) }

RunStoryShapes ==
    { None,
      Rec(SDict("Done"), ADict(1), TRUE, 0),
      Rec(SKind("absent"), AKind("truthy"), FALSE, 0),
      Rec(SKind("truthy"), ADict(1), FALSE, 0),
      Rec(SDict("Blocked"), AKind("truthy"), FALSE, 0),
      Titled(Rec(SDict("Blocked"), ADict(1), FALSE, 0), UKind("absent"),
             NoSubject("null")) }

\* grouping: every kind of status value
GroupShapes ==
    { None }
    \cup { Rec(SKind(k), ADict(1), FALSE, 0) :
             k \in {"absent", "null", "falsy", "truthy", "emptydict", "dict_nokey"} }
    \cup { Rec(SDict(n), ADict(1), n = "Done", 0) : n \in {"Done", "In Progress", "Blocked"} }

\* boards: few statuses, many records
BoardShapes ==
    { None,
      Titled(Rec(SDict("Done"), ADict(1), TRUE, 1), UDict(1), Subject(30)),
      Titled(Rec(SDict("In Progress"), AKind("null"), FALSE, 2), UKind("dict_nokey"),
             NoSubject("absent")),
      Rec(SDict("Review"), ADict(2), FALSE, 0) }

\* metrics: done closed records followed by open ones
CountedList(done, total) ==
    [ i \in 1..total |->
        IF i <= done THEN Rec(SDict("Done"), ADict(1), TRUE, 0)
        ELSE Rec(SDict("In Progress"), ADict(1), FALSE, 0) ]

\* workload: one open story for each of n team members, then b blocked and
\* u unassigned stories
TeamList(n, b, u) ==
    [ i \in 1..(n + b + u) |->
        IF i <= n THEN Rec(SDict("In Progress"), ADict(i), FALSE, 0)
        ELSE IF i <= n + b THEN Rec(SDict("Blocked"), ADict(1), FALSE, 0)
        ELSE Rec(SDict("Not Started"), AKind("null"), FALSE, 0) ]

ASprint == [ SprintRec(DStr(1), DStr(1)) EXCEPT !.id = 1 ]

(***************************************************************************)
(* State of one run of main()                                               *)
(***************************************************************************)
VARIABLES
    pc,                      \* the statement of main() to run next
    now,                     \* datetime.now().date()
    sprints, current_sprint, sprint_tasks, all_stories, all_tasks,
    sprint_tasks_by_status, all_stories_by_status, tasks_by_story,
    sprint_embed, kanban_metrics_embed,
    calls,                   \* the requests made so far, with their outcome
    err,                     \* the exception caught by main()'s handler
    raised,                  \* the exception main() ends with
    posted                   \* the payloads posted to the webhook, in order

vars == << pc, now, sprints, current_sprint, sprint_tasks, all_stories, all_tasks,
           sprint_tasks_by_status, all_stories_by_status, tasks_by_story,
           sprint_embed, kanban_metrics_embed, calls, err, raised, posted >>

NoErr == [type |-> "", at |-> ""]
Error(type, at) == [type |-> type, at |-> at]
NoEmbed == [title |-> "", progress |-> <<>>, fields |-> <<>>]
Call(op, ok) == [op |-> op, ok |-> ok]

data == << sprints, current_sprint, sprint_tasks, all_stories, all_tasks >>
built == << sprint_tasks_by_status, all_stories_by_status, tasks_by_story,
            sprint_embed, kanban_metrics_embed >>

\* the state at a statement, with the given inputs already fetched
StartAt(at, today, sp, cur, st, stories, tasks) ==
    /\ pc = at
    /\ now = today
    /\ sprints = sp
    /\ current_sprint = cur
    /\ sprint_tasks = st
    /\ all_stories = stories
    /\ all_tasks = tasks
    /\ sprint_tasks_by_status = <<>>
    /\ all_stories_by_status = <<>>
    /\ tasks_by_story = <<>>
    /\ sprint_embed = NoEmbed
    /\ kanban_metrics_embed = NoEmbed
    /\ calls = <<>>
    /\ err = NoErr
    /\ raised = NoErr
    /\ posted = <<>>

\* a run on the first or on the last day of the sprint the API may return
Init == \E today \in {1, MaxDay} : StartAt("auth", today, <<>>, None, <<>>, <<>>, <<>>)

(***************************************************************************)
(* main()                                                                   *)
(***************************************************************************)
\* a request whose response status is never examined: the run goes on to
\* the next statement whatever the outcome
RequestUnchecked(op, ok, next) ==
    /\ calls' = Append(calls, Call(op, ok))
    /\ pc' = next
    /\ err' = err

\* a request: response.raise_for_status() raises HTTPError, which takes
\* main() to its handler
Request(op, ok, next) ==
    /\ calls' = Append(calls, Call(op, ok))
    /\ pc' = IF ok THEN next ELSE "except"
    /\ err' = IF ok THEN err ELSE Error("HTTPError", op)

\* auth_token = get_taiga_auth_token()
Authenticate ==
    /\ pc = "auth"
    /\ \E ok \in BOOLEAN : Request("auth", ok, "project")
    /\ UNCHANGED << now, data, built, raised, posted >>

\* project = get_project_data(auth_token)
FetchProject ==
    /\ pc = "project"
    /\ \E ok \in BOOLEAN : Request("project", ok, "sprints")
    /\ UNCHANGED << now, data, built, raised, posted >>

\* sprints = get_sprints(auth_token, project['id'])
FetchSprints ==
    /\ pc = "sprints"
    /\ \E ok \in BOOLEAN, xs \in Lists(RunSprintShapes, MaxRun) :
         /\ Request("sprints", ok, "select")
         /\ sprints' = IF ok THEN WithIds(xs) ELSE sprints
    /\ UNCHANGED << now, current_sprint, sprint_tasks, all_stories, all_tasks,
                    built, raised, posted >>

\* current_sprint = get_current_sprint(sprints); sprint_tasks = []
SelectSprint ==
    /\ pc = "select"
    /\ LET r == get_current_sprint(sprints, now)
       IN  /\ current_sprint' = r.val
           /\ pc' = IF ~r.ok THEN "except"
                    ELSE IF r.val # None THEN "sprint_tasks" ELSE "stories"
           /\ err' = IF r.ok THEN err ELSE Error("TypeError", "select")
    /\ UNCHANGED << now, sprints, sprint_tasks, all_stories, all_tasks, built,
                    calls, raised, posted >>

\* if current_sprint: sprint_tasks = get_tasks(..., current_sprint['id'])
FetchSprintTasks ==
    /\ pc = "sprint_tasks"
    /\ \E ok \in BOOLEAN, xs \in Lists(RunSprintTaskShapes, MaxRun) :
         /\ Request("sprint_tasks", ok, "stories")
         /\ sprint_tasks' = IF ok THEN WithIds(xs) ELSE sprint_tasks
    /\ UNCHANGED << now, sprints, current_sprint, all_stories, all_tasks,
                    built, raised, posted >>

\* all_stories = get_all_user_stories(auth_token, project['id'])
FetchAllStories ==
    /\ pc = "stories"
    /\ \E ok \in BOOLEAN, xs \in Lists(RunStoryShapes, MaxRun) :
         /\ Request("stories", ok, "tasks")
         /\ all_stories' = IF ok THEN WithIds(xs) ELSE all_stories
    /\ UNCHANGED << now, sprints, current_sprint, sprint_tasks, all_tasks,
                    built, raised, posted >>

\* all_tasks = get_all_tasks(auth_token, project['id'])
FetchAllTasks ==
    /\ pc = "tasks"
    /\ \E ok \in BOOLEAN, xs \in Lists(RunTaskShapes, MaxRun) :
         /\ Request("tasks", ok, "organize")
         /\ all_tasks' = IF ok THEN WithIds(xs) ELSE all_tasks
    /\ UNCHANGED << now, sprints, current_sprint, sprint_tasks, all_stories,
                    built, raised, posted >>

\* Organize data; Organize tasks by story
Organize ==
    /\ pc = "organize"
    /\ sprint_tasks_by_status' = organize_tasks_by_status(sprint_tasks)
    /\ all_stories_by_status' = organize_stories_by_status(all_stories)
    /\ tasks_by_story' = TasksByStoryLoop(all_tasks, <<>>)
    /\ pc' = "embeds"
    /\ UNCHANGED << now, data, sprint_embed, kanban_metrics_embed, calls, err, raised, posted >>

\* Create the TWO embeds: the first exception either raises takes main()
\* to its handler
BuildEmbeds ==
    /\ pc = "embeds"
    /\ LET first == SprintEmbedError(current_sprint, sprint_tasks, sprint_tasks_by_status)
           second == KanbanError(all_stories, all_stories_by_status)
       IN  IF first # ""
           THEN /\ err' = Error(first, "embeds")
                /\ pc' = "except"
                /\ UNCHANGED << sprint_embed, kanban_metrics_embed >>
           ELSE /\ sprint_embed' =
                     create_sprint_standup_embed(current_sprint, sprint_tasks,
                                                 sprint_tasks_by_status)
                /\ IF second # ""
                   THEN /\ err' = Error(second, "embeds")
                        /\ pc' = "except"
                        /\ UNCHANGED kanban_metrics_embed
                   ELSE /\ kanban_metrics_embed' =
                             create_kanban_and_metrics_embed(all_stories, all_tasks,
                                 all_stories_by_status, tasks_by_story,
                                 current_sprint, sprint_tasks)
                        /\ pc' = "send"
                        /\ UNCHANGED err
    /\ UNCHANGED << now, data, sprint_tasks_by_status, all_stories_by_status,
                    tasks_by_story, calls, raised, posted >>

\* send_to_discord([sprint_embed, kanban_metrics_embed])
SendReport ==
    /\ pc = "send"
    /\ \E ok \in BOOLEAN : Request("report", ok, "done")
    /\ posted' = Append(posted, << sprint_embed, kanban_metrics_embed >>)
    /\ UNCHANGED << now, data, built, raised >>

\* a handler without the inner try/except: a failed notification replaces
\* the exception being handled
PropagatedUnguarded(original, notified) ==
    IF notified THEN original ELSE Error("HTTPError", "notify")

\* what the handler's final raise propagates: the exception it caught,
\* whether or not the notification went out
Propagated(original, notified) == original

\* the embed of the handler: a title and a description, no fields
error_embed == [title |-> "Standup Automation Failed", progress |-> <<>>, fields |-> <<>>]

\* except Exception as e: try: send_to_discord([error_embed]) except: pass; raise
HandleError ==
    /\ pc = "except"
    /\ \E ok \in BOOLEAN :
         /\ calls' = Append(calls, Call("notify", ok))
         /\ raised' = Propagated(err, ok)
    /\ posted' = Append(posted, << error_embed >>)
    /\ pc' = "failed"
    /\ UNCHANGED << now, data, built, err >>

Next ==
    \/ Authenticate
    \/ FetchProject
    \/ FetchSprints
    \/ SelectSprint
    \/ FetchSprintTasks
    \/ FetchAllStories
    \/ FetchAllTasks
    \/ Organize
    \/ BuildEmbeds
    \/ SendReport
    \/ HandleError

Spec == Init /\ [][Next]_vars

(***************************************************************************)
(* Specifications of the parts of main(), their inputs drawn from bounded   *)
(* sets                                                                     *)
(***************************************************************************)
\* get_current_sprint on every list of sprints, on every day
InitSelect ==
    \E today \in 0..(MaxDay + 1), xs \in Lists(SelectSprintShapes, MaxSprints) :
        StartAt("select", today, WithIds(xs), None, <<>>, <<>>, <<>>)

SpecSelect == InitSelect /\ [][SelectSprint]_vars

\* the grouping of every list of records, whatever their status value
InitGroup ==
    \E xs \in Lists(GroupShapes, MaxRecs) :
        StartAt("organize", 1, << ASprint >>, ASprint, WithIds(xs), WithIds(xs), WithIds(xs))

SpecGroup == InitGroup /\ [][Organize]_vars

NextBuild == Organize \/ BuildEmbeds

\* the boards of every list of well-formed records
InitBoard ==
    \E xs \in Lists(BoardShapes, MaxBoard) :
        StartAt("organize", 1, << ASprint >>, ASprint, WithIds(xs), WithIds(xs), WithIds(xs))

SpecBoard == InitBoard /\ [][NextBuild]_vars

\* the metrics of every pair of counts, with or without a null entry
InitPct ==
    \E total \in 0..MaxTotal, nulls \in 0..1 : \E done \in 0..total :
        LET xs == WithIds([i \in 1..nulls |-> None] \o CountedList(done, total))
        IN  StartAt("organize", 1, << ASprint >>, ASprint, xs, xs, xs)

SpecPct == InitPct /\ [][NextBuild]_vars

\* the fields of every team size, with or without blocked and unassigned
\* stories and a sprint
InitFields ==
    \E n \in 0..MaxUsers, b \in 0..1, u \in 0..1, sprint \in {None, ASprint} :
        StartAt("organize", 1,
                IF sprint = None THEN <<>> ELSE << sprint >>, sprint,
                IF sprint = None THEN <<>> ELSE WithIds(CountedList(1, 2)),
                WithIds(TeamList(n, b, u)), <<>>)

SpecFields == InitFields /\ [][NextBuild]_vars

(***************************************************************************)
(* Properties                                                               *)
(***************************************************************************)
\* the number of requests of one kind made so far
Requests(op) == Cardinality({ i \in 1..Len(calls) : calls[i].op = op })

Succeeded(op) == \E i \in 1..Len(calls) : calls[i] = Call(op, TRUE)

\* the statements of main() that follow the building of the embeds
AfterEmbeds == pc \in {"send", "done"} \/ (pc \in {"except", "failed"} /\ err.at = "report")

\* C1: whenever a step of main() raises (authentication, a fetch, the
\* building of the embeds, the dispatch of the report), the handler attempts
\* exactly one error notification and then main() ends with the error that
\* was raised first, whether or not the notification could be sent; a run
\* that raises nothing attempts no notification.
C1_ErrorNotifiedOnceThenReraised ==
    /\ err # NoErr <=> pc \in {"except", "failed"}
    /\ err.type = "HTTPError" =>
         /\ Requests(err.at) = 1
         /\ \E i \in 1..Len(calls) : calls[i] = Call(err.at, FALSE)
    /\ pc = "failed" =>
         /\ Requests("notify") = 1
         /\ calls[Len(calls)].op = "notify"
         /\ raised = err
    /\ pc # "failed" => Requests("notify") = 0 /\ raised = NoErr

\* C1 witness: the report could not be dispatched, the notification could
\* not be sent either, and main() ended with the report's error
C1_Witness ==
    /\ pc = "failed"
    /\ calls[Len(calls)] = Call("notify", FALSE)
    /\ raised = Error("HTTPError", "report")

\* C2: every embed the run builds has at most 25 fields
C2_AtMost25Fields ==
    AfterEmbeds =>
        /\ Len(sprint_embed.fields) <= 25
        /\ Len(kanban_metrics_embed.fields) <= 25

\* a status or assigned-to value that is missing or malformed
Malformed(v) == v.kind \in {"absent", "null", "falsy", "truthy"}

\* every fetched record has a subject that can be sliced and a
\* 'user_story_extra_info' that is a dict or falsy: no stage raises on these
WellTitled ==
    \A recs \in {sprint_tasks, all_stories} : \A i \in 1..Len(recs) :
        recs[i] # None => ~SubjectRaises(recs[i]) /\ ~UsRefRaises(recs[i])

\* C3: a record whose status or assigned-to value is absent, null or no dict
\* makes no stage raise: when the other keys of the records are well formed
\* the building of the embeds never fails, the record is grouped under
\* "Unknown" when its status is malformed and filed under 'unassigned' when
\* its assignee is.
C3_MalformedRecordsNeverRaise ==
    /\ WellTitled => err.at # "embeds"
    /\ pc \in {"embeds", "send", "done"} =>
         \A i \in 1..Len(all_stories) :
            LET story == all_stories[i]
            IN  story # None =>
                  /\ Malformed(story.status) =>
                       \E j \in 1..Len(MapGet(all_stories_by_status, "Unknown", <<>>)) :
                          all_stories_by_status["Unknown"][j] = story
                  /\ Malformed(story.assigned) =>
                       /\ RenderedAssignee(story) = QMark
                       /\ WorkloadUser(story) = Unassigned

\* the keys of a grouping under which a record is filed
BucketsOf(m, rec) ==
    { k \in DOMAIN m : \E j \in 1..Len(m[k]) : m[k][j] = rec }

\* how often a record occurs in one bucket
TimesIn(bucket, rec) == Cardinality({ j \in 1..Len(bucket) : bucket[j] = rec })

RECURSIVE SumOfSizes(_, _)
SumOfSizes(m, keys) ==
    IF keys = {} THEN 0
    ELSE LET k == CHOOSE x \in keys : TRUE
         IN  Len(m[k]) + SumOfSizes(m, keys \ {k})

\* m partitions the non-null records of input, each bucket in input order
\* (a record's id is its place in the input)
Partitions(m, input) ==
    /\ \A k \in DOMAIN m : \A j \in 1..Len(m[k]) : m[k][j] # None
    /\ \A i \in 1..Len(input) :
          input[i] # None =>
             /\ Cardinality(BucketsOf(m, input[i])) = 1
             /\ \A k \in BucketsOf(m, input[i]) : TimesIn(m[k], input[i]) = 1
    /\ SumOfSizes(m, DOMAIN m) = CountNonNull(input)
    /\ \A k \in DOMAIN m : \A j1, j2 \in 1..Len(m[k]) :
          j1 < j2 => m[k][j1].id < m[k][j2].id

\* C4: organize_tasks_by_status and organize_stories_by_status return a
\* mapping without null entries in which every non-null input record occurs
\* in exactly one bucket, exactly once, so that the bucket sizes add up to the
\* number of non-null inputs, and every bucket keeps the input order.
C4_GroupingPartitionsNonNull ==
    pc = "embeds" =>
        /\ Partitions(sprint_tasks_by_status, sprint_tasks)
        /\ Partitions(all_stories_by_status, all_stories)

\* C4 witness: an input with a null entry, grouped into two buckets, one of
\* them holding two records
C4_Witness ==
    /\ pc = "embeds"
    /\ \E i \in 1..Len(all_stories) : all_stories[i] = None
    /\ Cardinality(DOMAIN all_stories_by_status) >= 2
    /\ \E k \in DOMAIN sprint_tasks_by_status : Len(sprint_tasks_by_status[k]) >= 2

\* the number of non-null input records of a status
CountStatus(input, status) ==
    Cardinality({ i \in 1..Len(input) :
                    input[i] # None /\ StatusName(input[i]) = status })

NumLines(f, t) == Cardinality({ j \in 1..Len(f.lines) : f.lines[j].t = t })

\* a column of count records shows min(count, 3) of them, and "+N more" with
\* N = count - 3 exactly when count > 3
Capped(f, count) ==
    /\ NumLines(f, "item") = Min(count, 3)
    /\ NumLines(f, "item") <= 3
    /\ count > 3 =>
         /\ NumLines(f, "more") = 1
         /\ \A j \in 1..Len(f.lines) : f.lines[j].t = "more" => f.lines[j].n = count - 3
    /\ count <= 3 => NumLines(f, "more") = 0

AllCapped(board, input) ==
    \A i \in 1..Len(board) : Capped(board[i], CountStatus(input, board[i].status))

\* the column fields of an embed
ColumnsOf(embed) == SelectSeq(embed.fields, LAMBDA f : f.kind = "column")

\* C5: every column of a board (the sprint board of the first embed, and the
\* task and story boards of the Kanban columns) shows min(count, 3) item
\* lines, never more than 3, with one "+N more" line, N = count - 3, exactly
\* when count > 3.
C5_ColumnsCappedAtThree ==
    pc \in {"embeds", "send"} =>
        /\ AllCapped(create_task_board_section(KANBAN_COLUMNS, sprint_tasks_by_status),
                     sprint_tasks)
        /\ AllCapped(create_story_board_section(KANBAN_COLUMNS, all_stories_by_status,
                                                tasks_by_story), all_stories)
        /\ pc = "send" => AllCapped(ColumnsOf(sprint_embed), sprint_tasks)

\* C5 witness: the sprint board shows a "Done" column of 5 tasks as 3 items
\* and "+2 more"
C5_Witness ==
    /\ pc = "send"
    /\ \E i \in 1..Len(sprint_embed.fields) :
          LET f == sprint_embed.fields[i]
          IN  /\ f.kind = "column" /\ f.status = "Done" /\ f.count = 5
              /\ NumLines(f, "item") = 3
              /\ f.lines[4] = [t |-> "more", n |-> 2]

\* the nearest integers to n/d: p is one when |p - n/d| <= 1/2
Nearest(p, n, d) == 2 * (p * d - n) <= d /\ 2 * (n - p * d) <= d

\* the percentages an embed displays, as [done, total, pct]
Shown(embed) ==
    { [done |-> embed.progress[i].done, total |-> embed.progress[i].total,
       pct |-> embed.progress[i].pct] : i \in 1..Len(embed.progress) }
    \cup { [done |-> embed.fields[i].done, total |-> embed.fields[i].total,
            pct |-> embed.fields[i].pct] :
             i \in { j \in 1..Len(embed.fields) : embed.fields[j].kind = "metric" } }

\* C6: every displayed completion percentage is 0 when total is 0 and
\* otherwise done/total*100 rounded to the nearest integer; 5 done out of 8
\* display 63%.
C6_CompletionRoundedToNearest ==
    pc = "send" =>
        \A p \in Shown(sprint_embed) \cup Shown(kanban_metrics_embed) :
            /\ p.total = 0 => p.pct = 0
            /\ p.total > 0 => Nearest(p.pct, 100 * p.done, p.total)
            /\ (p.done = 5 /\ p.total = 8) => p.pct = 63

\* the start date of a sprint, as a day; 0 when it has none
StartDay(sprint) == IF sprint.start.kind = "str" THEN ParseDate(sprint.start.s) ELSE 0

\* the sprints of the list that have started: their start date is present
\* and not after the current date
Started == { i \in 1..Len(sprints) :
               sprints[i].start.kind = "str" /\ ParseDate(sprints[i].start.s) <= now }

\* C7: on every list of sprints whose start and end dates are present or
\* absent (missing or null), get_current_sprint raises nothing and returns
\* the first sprint in list order whose range holds the current date; when
\* there is none, a sprint of the list, which is, when any sprint has
\* started, the one that started last; and no sprint when the list is empty.
C7_CurrentSprintByDateRange ==
    pc # "select" =>
        LET matching == { i \in 1..Len(sprints) : InRange(sprints[i], now) }
        IN  /\ err = NoErr
            /\ matching # {} =>
                 \E i \in matching :
                    /\ current_sprint = sprints[i]
                    /\ \A j \in matching : i <= j
            /\ (matching = {} /\ sprints # <<>>) =>
                 /\ \E i \in 1..Len(sprints) : current_sprint = sprints[i]
                 /\ Started # {} =>
                      \E i \in Started :
                         /\ current_sprint = sprints[i]
                         /\ \A j \in Started :
                               StartDay(sprints[j]) <= StartDay(sprints[i])
            /\ sprints = <<>> => current_sprint = None

\* C8: when the fetched sprint list is empty no sprint is selected, no sprint
\* tasks are requested, the first embed has no sprint progress line and no
\* fields, the second has no "Sprint Progress" metric, nothing raises unless a
\* request fails or a record makes the building of the embeds raise, and the
\* run ends with the report, built from all stories and all tasks, dispatched.
C8_EmptySprintListOmitsSprintSections ==
    (Succeeded("sprints") /\ sprints = <<>> /\ pc # "select") =>
        /\ current_sprint = None
        /\ Requests("sprint_tasks") = 0
        /\ sprint_tasks = <<>>
        /\ err.type \in {"", "HTTPError", "AttributeError", "TypeError"}
        /\ err.type \in {"AttributeError", "TypeError"} =>
             /\ err.at = "embeds"
             /\ KanbanError(all_stories, all_stories_by_status) = err.type
        /\ AfterEmbeds =>
             /\ sprint_embed.title # ""
             /\ sprint_embed.progress = <<>>
             /\ sprint_embed.fields = <<>>
             /\ \A i \in 1..Len(kanban_metrics_embed.fields) :
                   LET f == kanban_metrics_embed.fields[i]
                   IN  f.kind = "metric" => f.label # "Sprint Progress"
             /\ \E i \in 1..Len(kanban_metrics_embed.fields) :
                   LET f == kanban_metrics_embed.fields[i]
                   IN  /\ f.kind = "metric" /\ f.label = "Story Progress"
                       /\ f.total = CountNonNull(all_stories)
             /\ \E i \in 1..Len(kanban_metrics_embed.fields) :
                   LET f == kanban_metrics_embed.fields[i]
                   IN  /\ f.kind = "metric" /\ f.label = "Task Completion"
                       /\ f.total = CountNonNull(all_tasks)
        /\ pc = "done" => calls[Len(calls)] = Call("report", TRUE)

\* C8 witness: a run with an empty sprint list, a story and a task that ended
\* with the report dispatched
C8_Witness ==
    /\ pc = "done"
    /\ Succeeded("sprints") /\ sprints = <<>>
    /\ CountNonNull(all_stories) > 0 /\ CountNonNull(all_tasks) > 0
    /\ calls[Len(calls)] = Call("report", TRUE)

\* column definitions: the two of the program, an empty one, one that
\* names a status twice and one with a status no record has
ColumnDefs ==
    { SPRINT_COLUMNS, KANBAN_COLUMNS, <<>>,
      << [status |-> "Done", emoji |-> "check"],
         [status |-> "Blocked", emoji |-> "stop"],
         [status |-> "Done", emoji |-> "check"] >> }

\* the non-null input record of an id
RecordOf(input, ref) ==
    CHOOSE r \in { input[i] : i \in 1..Len(input) } : r # None /\ r.id = ref

\* board renders columns from the records of input: one block per column, in
\* order, headed by the number of all records of its status, holding only the
\* placeholder when there is none and only records of its status otherwise
Renders(board, columns, input) ==
    /\ Len(board) = Len(columns)
    /\ \A i \in 1..Len(columns) :
          LET f == board[i]
          IN  /\ f.status = columns[i].status
              /\ f.emoji = columns[i].emoji
              /\ f.count = CountStatus(input, f.status)
              /\ f.count = 0 <=> f.lines = << [t |-> "empty"] >>
              /\ \A j \in 1..Len(f.lines) :
                    f.lines[j].t = "item" =>
                       StatusName(RecordOf(input, f.lines[j].ref)) = f.status

\* C9: for every column definition the board renderers return exactly one
\* block per defined column, in definition order; a column without records is
\* present and holds only the placeholder; every header carries the number of
\* all records of its status, visible or not; and a record whose status is not
\* in the definition is in no block.
C9_OneBlockPerDefinedColumn ==
    pc \in {"embeds", "send"} =>
        /\ \A columns \in ColumnDefs :
              /\ Renders(create_task_board_section(columns, sprint_tasks_by_status),
                         columns, sprint_tasks)
              /\ Renders(create_story_board_section(columns, all_stories_by_status,
                                                    tasks_by_story),
                         columns, all_stories)
        /\ (pc = "send" /\ CountNonNull(sprint_tasks) > 0) =>
              Renders(ColumnsOf(sprint_embed), SPRINT_COLUMNS, sprint_tasks)

\* C9 witness: a sprint board with an empty "Not Started" column, a "Done"
\* column of more records than it shows, and a record of a status ("Review")
\* that no column has
C9_Witness ==
    /\ pc = "send"
    /\ Len(ColumnsOf(sprint_embed)) = 3
    /\ ColumnsOf(sprint_embed)[1].lines = << [t |-> "empty"] >>
    /\ ColumnsOf(sprint_embed)[3].count = 4
    /\ CountStatus(sprint_tasks, "Review") = 1

\* C10: the workload grouping files every non-null story whose status, as
\* the status grouping names it, is neither "Done" nor "Archived" under
\* exactly one key, its assignee's username or 'unassigned', in fetch order;
\* it files no "Done" or "Archived" story; and its test of the status agrees
\* with the status the status grouping gives the story (on records whose
\* other keys are well formed).
C10_WorkloadGroupsOpenStories ==
    (Succeeded("tasks") /\ pc \notin {"organize", "embeds"} /\ WellTitled) =>
        LET by_user == stories_by_user(all_stories)
        IN  /\ err.at # "embeds"
            /\ \A i \in 1..Len(all_stories) :
                  LET story == all_stories[i]
                  IN  story # None =>
                        /\ ~WorkloadStatusRaises(story)
                        /\ IsTerminal(WorkloadStatus(story)) <=> IsTerminal(StatusName(story))
                        /\ BucketsOf(by_user, story) =
                              IF IsTerminal(StatusName(story)) THEN {}
                              ELSE { WorkloadUser(story) }
                        /\ \A k \in BucketsOf(by_user, story) :
                              TimesIn(by_user[k], story) = 1
            /\ \A k \in DOMAIN by_user : \A j1, j2 \in 1..Len(by_user[k]) :
                  j1 < j2 => by_user[k][j1].id < by_user[k][j2].id


\* the field lists of the payloads main() assembles for the report
PayloadFields == { sprint_embed.fields, kanban_metrics_embed.fields }

\* whether the blocks i..j of a field list are all narrow
AllNarrow(fs, i, j) == \A k \in i..j : fs[k].inline

\* C11: in every field list main() assembles (the sprint embed's and the
\* metrics embed's), no four consecutive blocks are narrow, and whenever three
\* consecutive narrow blocks start a row (the list begins there, or a wide
\* block precedes them) and another block follows, that block is the empty
\* wide spacer; this for every number of team members, with or without a
\* blocked callout, an unassigned block and a sprint metric.
C11_SpacerAfterEveryThirdNarrow ==
    \A fs \in PayloadFields :
        /\ \A i \in 1..(Len(fs) - 3) : ~AllNarrow(fs, i, i + 3)
        /\ \A i \in 1..(Len(fs) - 3) :
             ( /\ AllNarrow(fs, i, i + 2)
               /\ (i = 1 \/ ~fs[i - 1].inline) )
             => fs[i + 3] = Spacer

\* a report with more than three team members, an unassigned block and a
\* sprint metric: a spacer follows the third member, and the sprint board
\* is there too
C11_Witness ==
    /\ pc = "send"
    /\ Len(sprint_embed.fields) = Len(SPRINT_COLUMNS) + 1
    /\ LET fs == kanban_metrics_embed.fields
       IN  /\ Cardinality({ i \in 1..Len(fs) : fs[i].kind = "member" }) > RowWidth
           /\ \E i \in 1..(Len(fs) - 3) :
                /\ \A k \in i..(i + 2) : fs[k].kind = "member"
                /\ fs[i + 3] = Spacer
           /\ \E i \in 1..Len(fs) : fs[i].kind = "unassigned"
           /\ \E i \in 1..Len(fs) :
                fs[i].kind = "metric" /\ fs[i].label = "Sprint Progress"

\* the requests of a run in the order main() makes them, the notification
\* of the handler left out
StepOrder == << "auth", "project", "sprints", "sprint_tasks", "stories", "tasks", "report" >>

Position(op) == CHOOSE i \in 1..Len(StepOrder) : StepOrder[i] = op

\* the requests that went to the webhook
WebhookCalls == { i \in 1..Len(calls) : calls[i].op \in {"report", "notify"} }

\* C12: in every run of main() the requests are made in the order
\* authenticate, project, sprints, (sprint tasks), all stories, all tasks,
\* report, each at most once and only the sprint-task fetch ever left out;
\* a request is made only after every earlier one has succeeded, and after a
\* failed step (a request, the choice of the sprint, the building of the
\* embeds) the only further request is the error notification; the report is
\* one webhook call whose payload is the sprint embed followed by the metrics
\* embed; a run makes at most two webhook calls, and never both delivers the
\* report and attempts an error notification.
C12_StepsInOrderReportOnce ==
    /\ \A i, j \in 1..Len(calls) :
          (i < j /\ calls[j].op # "notify")
          => /\ calls[i].op # "notify"
             /\ Position(calls[i].op) < Position(calls[j].op)
    /\ \A j \in 1..Len(calls) :
          calls[j].op # "notify"
          => \A k \in 1..(Position(calls[j].op) - 1) :
                \/ Succeeded(StepOrder[k])
                \/ StepOrder[k] = "sprint_tasks" /\ Requests("sprint_tasks") = 0
    /\ Requests("stories") > 0
          => (Requests("sprint_tasks") > 0 <=> current_sprint # None)
    /\ \A i, j \in 1..Len(calls) :
          (i < j /\ ~calls[i].ok) => calls[j].op = "notify"
    /\ err.at = "select"
          => \A op \in {"sprint_tasks", "stories", "tasks", "report"} : Requests(op) = 0
    /\ err.at = "embeds" => Requests("report") = 0
    /\ Requests("report") <= 1
    /\ Requests("notify") <= 1
    /\ Len(posted) = Cardinality(WebhookCalls)
    /\ Len(posted) <= 2
    /\ \A i \in 1..Len(posted) :
          IF i = 1 /\ Requests("report") = 1
          THEN /\ posted[i] = << sprint_embed, kanban_metrics_embed >>
               /\ posted[i][1].title = "Daily Standup"
               /\ posted[i][2].title = "Team Metrics & Workload"
          ELSE posted[i] = << error_embed >>
    /\ ~(Succeeded("report") /\ Requests("notify") > 0)

\* a run with a current sprint that made all seven requests and delivered
\* the report
C12_Witness ==
    /\ pc = "done"
    /\ current_sprint # None
    /\ calls = [ i \in 1..Len(StepOrder) |-> Call(StepOrder[i], TRUE) ]
    /\ posted = << << sprint_embed, kanban_metrics_embed >> >>
    /\ raised = NoErr
====
